---------------------------- MODULE Spec2Model ----------------------------
(***************************************************************************)
(* Coh-Metrix-Dementia, coh/metrics/constituents.py: the six metrics of    *)
(* the Constituents category, the category's construction, and the         *)
(* resource pool the metrics read their per-text resources from.           *)
(*                                                                         *)
(* The module starts `from __future__ import division`, so every `/` of    *)
(* the metrics is true division and yields a Python float, an IEEE-754     *)
(* binary64.  The floats are modelled bit for bit (section "binary64"):    *)
(* a quotient or a sum is rounded to nearest, ties to even, as CPython and *)
(* numpy round it.                                                         *)
(***************************************************************************)
EXTENDS Integers, Sequences, FiniteSets

\* The 1000 of `words / 1000`
PerThousand == 1000

(***************************************************************************)
(* binary64.  A float is [neg, m, e]: the number (-1)^neg * m * 2^e, where *)
(* m is a 53-bit mantissa held in two limbs <<hi, lo>> (m = hi * 2^27 +    *)
(* lo), normal (2^52 <= m < 2^53) or zero.  The metrics' values lie far    *)
(* from the overflow and subnormal ranges, which are not modelled.  What   *)
(* is modelled of Python's float: int -> float, x / y and x + y.           *)
(***************************************************************************)
\* The bits of the low limb
LimbBits == 27

LimbBase == 2^LimbBits

\* 2^26, the hi limb of 2^53: a mantissa is below it
MantHiEnd == 2^26

BigZero == <<0, 0>>

BigGeq(a, b) == a[1] > b[1] \/ (a[1] = b[1] /\ a[2] >= b[2])

BigAdd(a, b) ==
    LET s == a[2] + b[2]
    IN  IF s >= LimbBase THEN <<a[1] + b[1] + 1, s - LimbBase>>
                         ELSE <<a[1] + b[1], s>>

BigSub(a, b) ==
    IF a[2] >= b[2] THEN <<a[1] - b[1], a[2] - b[2]>>
                    ELSE <<a[1] - b[1] - 1, a[2] + LimbBase - b[2]>>

BigHalf(a) == <<a[1] \div 2, (a[2] \div 2) + (a[1] % 2) * (LimbBase \div 2)>>

BigOdd(a) == a[2] % 2 = 1

F64Zero == [neg |-> FALSE, m |-> BigZero, e |-> 0]

F64IsZero(x) == x.m = BigZero

\* x * 2^e, x an integer of 54 to 57 bits, plus a positive fraction of its
\* last bit when `sticky`: rounded to the nearest float, ties to even.
RECURSIVE F64Round(_, _, _, _)
F64Round(neg, x, e, sticky) ==
    IF x[1] >= 2 * MantHiEnd
        THEN F64Round(neg, BigHalf(x), e + 1, sticky \/ BigOdd(x))
        ELSE LET m  == BigHalf(x)
                 up == BigOdd(x) /\ (sticky \/ BigOdd(m))
                 r  == IF up THEN BigAdd(m, <<0, 1>>) ELSE m
             IN  IF r[1] >= MantHiEnd
                     THEN [neg |-> neg, m |-> BigHalf(r), e |-> e + 2]
                     ELSE [neg |-> neg, m |-> r, e |-> e + 1]

\* The bits of a mantissa
MantBits == 53

\* float(n), |n| < 2^26: exact
F64FromInt(n) ==
    IF n = 0 THEN F64Zero
    ELSE LET a == IF n < 0 THEN -n ELSE n
             k == CHOOSE i \in 0..(MantBits - LimbBits) : 2^i <= a /\ a < 2^(i + 1)
         IN  [neg |-> n < 0,
              m   |-> <<a * 2^(MantBits - LimbBits - 1 - k), 0>>,
              e   |-> k - (MantBits - 1)]

\* One step of the long division by d: s = <<the quotient bits so far, the
\* remainder>> gains one quotient bit.
F64DivStep(s, d) ==
    IF BigGeq(s[2], d)
        THEN LET r == BigSub(s[2], d)
             IN  <<BigAdd(BigAdd(s[1], s[1]), <<0, 1>>), BigAdd(r, r)>>
        ELSE <<BigAdd(s[1], s[1]), BigAdd(s[2], s[2])>>

\* n steps of the long division, n >= 1, as two halves.  The remainder of a
\* step is below 2 * d; testing it after the first half also makes TLC
\* evaluate that half before the second one starts, which keeps the
\* evaluation shallow.
RECURSIVE F64DivBits(_, _, _)
F64DivBits(s, d, n) ==
    IF n = 1 THEN F64DivStep(s, d)
    ELSE LET half == F64DivBits(s, d, n \div 2)
         IN  IF BigGeq(half[2], BigAdd(d, d)) THEN half
             ELSE F64DivBits(half, d, n - n \div 2)

\* The quotient bits F64Div takes: the integer bit and 55 fraction bits
QuotientBits == 56

\* x / y, y not zero (Python raises ZeroDivisionError for y = 0: the callers'
\* part)
F64Div(x, y) ==
    IF F64IsZero(x) THEN F64Zero
    ELSE LET qr == F64DivBits(<<BigZero, x.m>>, y.m, QuotientBits)
         IN  F64Round(x.neg # y.neg, qr[1], x.e - y.e - (QuotientBits - 1),
                      qr[2] # BigZero)

\* x shifted right by d bits, 0 <= d < 27; <<the bits kept, whether a 1 was
\* shifted out>>
BigShiftLimb(x, d) ==
    LET p == 2^d
    IN  <<<<x[1] \div p, (x[2] \div p) + (x[1] % p) * (LimbBase \div p)>>,
          x[2] % p # 0>>

\* x shifted right by d bits, d >= 0
BigShiftRight(x, d) ==
    IF d < LimbBits THEN BigShiftLimb(x, d)
    ELSE IF d < 2 * LimbBits
        THEN LET s == BigShiftLimb(<<0, x[1]>>, d - LimbBits)
             IN  <<s[1], s[2] \/ x[2] # 0>>
    ELSE <<BigZero, x # BigZero>>

\* 8 * x: three more bits, the guard, round and sticky bits of the sum
BigTimes8(x) == LET x2 == BigAdd(x, x) x4 == BigAdd(x2, x2) IN BigAdd(x4, x4)

GuardBits == 3

\* x + y, x and y of the same sign
F64Add(x, y) ==
    IF F64IsZero(x) THEN y
    ELSE IF F64IsZero(y) THEN x
    ELSE LET hi == IF x.e >= y.e THEN x ELSE y
             lo == IF x.e >= y.e THEN y ELSE x
             sh == BigShiftRight(BigTimes8(lo.m), hi.e - lo.e)
         IN  F64Round(hi.neg, BigAdd(BigTimes8(hi.m), sh[1]),
                      hi.e - GuardBits, sh[2])

\* How far apart two floats of the same sign are, in units of the last place
\* of the one with the smaller exponent; FarApart when their exponents differ
\* by more than one.
FarApart == LimbBase

F64UlpsApart(x, y) ==
    LET d(a, b) == IF BigGeq(a, b) THEN BigSub(a, b) ELSE BigSub(b, a)
        small(g) == IF g[1] # 0 THEN FarApart ELSE g[2]
    IN  IF x = y THEN 0
        ELSE IF F64IsZero(x) \/ F64IsZero(y) \/ x.neg # y.neg THEN FarApart
        ELSE IF x.e = y.e THEN small(d(x.m, y.m))
        ELSE IF x.e = y.e + 1 THEN small(d(BigAdd(x.m, x.m), y.m))
        ELSE IF y.e = x.e + 1 THEN small(d(BigAdd(y.m, y.m), x.m))
        ELSE FarApart

(***************************************************************************)
(* Python values.  A metric returns an int, a float, numpy's nan, or       *)
(* raises.  np.std's float is held as the exact variance it is the square  *)
(* root of (kind "sqrt", val a fraction in lowest terms).                  *)
(***************************************************************************)
PyInt(n) == [kind |-> "int", val |-> n]

PyFloat(x) == [kind |-> "float", val |-> x]

PyNaN == [kind |-> "nan", val |-> 0]

PyRaise(exc) == [kind |-> "raise", val |-> exc]

PySqrt(num, den) == [kind |-> "sqrt", val |-> <<num, den>>]

NoValue == [kind |-> "none", val |-> 0]

RECURSIVE SeqSum(_)
SeqSum(xs) == IF xs = <<>> THEN 0 ELSE xs[1] + SeqSum(Tail(xs))

\* sum(xs) of floats: Python's sum starts from the int 0 and adds from the
\* left; numpy's add.reduce does the same below eight elements.
RECURSIVE F64Sum(_)
F64Sum(xs) ==
    IF xs = <<>> THEN F64Zero
    ELSE F64Add(F64Sum(SubSeq(xs, 1, Len(xs) - 1)), xs[Len(xs)])

(***************************************************************************)
(* The resources of a text.  A text is its sequence of sentences; a        *)
(* sentence holds what the resource pool returns for it: the constituency  *)
(* parse `tree` (rp.parse_trees), the tagged tokens `tagged`               *)
(* (rp.tagged_sentences, rp.tagged_words_in_sents), and the nodes of the   *)
(* dependency graph `dep` (rp.dep_trees, tree.nodes.values()).  A tree is  *)
(* [label, kids]; a leaf has no kids.  A token is [word, tag], the word a  *)
(* sequence of characters.  A dependency node is [rel, tag]; as in nltk's  *)
(* DependencyGraph, node 0 is the artificial TOP node and the tokens       *)
(* follow, one node each.                                                  *)
(***************************************************************************)
Leaf == [label |-> "LEAF", kids |-> <<>>]

Node(label, kids) == [label |-> label, kids |-> kids]

\* The tags of the nlpnet tagset that is_verb / is_punctuation accept
VerbTags == {"V", "VAUX", "PCP"}

PunctuationTags == {"PU"}

\* rp.pos_tagger().tagset.is_verb(token), .is_punctuation(token)
is_verb(token) == token.tag \in VerbTags

is_punctuation(token) == token.tag \in PunctuationTags

\* rp.dep_parser().tagger.tagset.is_verb(('', tag)): the universal tagset
dep_is_verb(token) == token.tag = "VERB"

\* coh.utils.find_subtrees(tree, label): the subtrees with that label,
\* nested ones included, the tree itself first
RECURSIVE find_subtrees(_, _)
find_subtrees(tree, label) ==
    LET RECURSIVE below(_)
        below(i) == IF i > Len(tree.kids) THEN <<>>
                    ELSE find_subtrees(tree.kids[i], label) \o below(i + 1)
    IN  (IF tree.label = label THEN <<tree>> ELSE <<>>) \o below(1)

\* tree.leaves()
RECURSIVE leaves(_)
leaves(tree) ==
    LET RECURSIVE below(_)
        below(i) == IF i > Len(tree.kids) THEN <<>>
                    ELSE leaves(tree.kids[i]) \o below(i + 1)
    IN  IF tree.label = "LEAF" THEN <<tree>> ELSE below(1)

\* The leaves of each NP of the tree that is not inside another NP
RECURSIVE toplevel_nps(_)
toplevel_nps(tree) ==
    LET RECURSIVE below(_)
        below(i) == IF i > Len(tree.kids) THEN <<>>
                    ELSE toplevel_nps(tree.kids[i]) \o below(i + 1)
    IN  IF tree.label = "NP" THEN <<leaves(tree)>> ELSE below(1)

\* rp.leaves_in_toplevel_nps(t): per sentence, the leaves of its top-level NPs
leaves_in_toplevel_nps(t) == [i \in 1..Len(t) |-> toplevel_nps(t[i].tree)]

(***************************************************************************)
(* NounPhraseIncidence.value_for_text                                      *)
(***************************************************************************)
\* The words counted with the punctuation marks among them
CountTokens(tagged) == Len(tagged)

\* len([word for word in tagged_sents[i] if not ...is_punctuation(word)])
CountWords(tagged) ==
    Cardinality({i \in 1..Len(tagged) : ~is_punctuation(tagged[i])})

\* The noun phrases per word, not per thousand words
IncidencePerWord(sent) ==
    LET nps   == Len(find_subtrees(sent.tree, "NP"))
        words == CountWords(sent.tagged)
    IN  IF words = 0 THEN PyRaise("ZeroDivisionError")
        ELSE PyFloat(F64Div(F64FromInt(nps), F64FromInt(words)))

\* nps / (words / 1000) of one sentence: a float, or ZeroDivisionError when
\* words / 1000 is 0.0
IncidenceOfSentence(sent) ==
    LET nps     == Len(find_subtrees(sent.tree, "NP"))
        words   == CountWords(sent.tagged)
        divisor == F64Div(F64FromInt(words), F64FromInt(PerThousand))
    IN  IF F64IsZero(divisor) THEN PyRaise("ZeroDivisionError")
        ELSE PyFloat(F64Div(F64FromInt(nps), divisor))

\* sum(xs) / len(xs)
F64Mean(xs) == F64Div(F64Sum(xs), F64FromInt(Len(xs)))

\* The mean without its guard for the empty list: 0 / 0
IncidenceMeanUnguarded(sent_indices) ==
    IF sent_indices = <<>> THEN PyRaise("ZeroDivisionError")
    ELSE PyFloat(F64Mean(sent_indices))

\* sum(sent_indices) / len(sent_indices) if sent_indices else 0
IncidenceMean(sent_indices) ==
    IF sent_indices = <<>> THEN PyInt(0) ELSE PyFloat(F64Mean(sent_indices))

NounPhraseIncidence_value_for_text(t) ==
    LET sent_indices == [i \in 1..Len(t) |-> IncidenceOfSentence(t[i])]
    IN  IF \E i \in 1..Len(t) : sent_indices[i].kind = "raise"
            THEN PyRaise("ZeroDivisionError")
        ELSE IncidenceMean([i \in 1..Len(t) |-> sent_indices[i].val])

(***************************************************************************)
(* MeanNounPhrase, MaxNounPhrase, MinNounPhrase, StdNounPhrase             *)
(***************************************************************************)
\* [len(toplevel) for toplevel in sent]
SizesOf(sent_leaves) == [j \in 1..Len(sent_leaves) |-> Len(sent_leaves[j])]

\* np.mean of a list of ints: nan for the empty list (numpy warns and does
\* not raise), else the float sum / count
NpMeanOfInts(xs) ==
    IF xs = <<>> THEN PyNaN
    ELSE PyFloat(F64Div(F64FromInt(SeqSum(xs)), F64FromInt(Len(xs))))

\* np.mean of a list of floats and nans: nan for the empty list and when an
\* element is nan
NpMeanOfFloats(xs) ==
    IF xs = <<>> \/ \E i \in 1..Len(xs) : xs[i].kind = "nan" THEN PyNaN
    ELSE PyFloat(F64Mean([i \in 1..Len(xs) |-> xs[i].val]))

\* [len(toplevel) for leaves in rp.leaves_in_toplevel_nps(t)
\*                for toplevel in leaves]
RECURSIVE Flatten(_)
Flatten(xss) == IF xss = <<>> THEN <<>> ELSE xss[1] \o Flatten(Tail(xss))

np_sizes(t) ==
    LET all_leaves == leaves_in_toplevel_nps(t)
    IN  Flatten([i \in 1..Len(t) |-> SizesOf(all_leaves[i])])

\* The mean of the sizes of all the noun phrases of the text
MeanOfAllSizes(t) == NpMeanOfInts(np_sizes(t))

\* np.mean([np.mean([len(toplevel) for toplevel in sent])
\*          for sent in all_leaves])
MeanNounPhrase_value_for_text(t) ==
    LET all_leaves == leaves_in_toplevel_nps(t)
        mean_sizes == [i \in 1..Len(t) |-> NpMeanOfInts(SizesOf(all_leaves[i]))]
    IN  NpMeanOfFloats(mean_sizes)

\* max(xs), min(xs) of a non-empty list
SeqMax(xs) == CHOOSE x \in {xs[i] : i \in 1..Len(xs)} :
                  \A i \in 1..Len(xs) : xs[i] <= x

SeqMin(xs) == CHOOSE x \in {xs[i] : i \in 1..Len(xs)} :
                  \A i \in 1..Len(xs) : xs[i] >= x

\* The maximum with a default for the empty list
MaxOrZero(t) == IF np_sizes(t) = <<>> THEN PyInt(0) ELSE PyInt(SeqMax(np_sizes(t)))

\* max() and min() raise ValueError for an empty sequence
MaxNounPhrase_value_for_text(t) ==
    IF np_sizes(t) = <<>> THEN PyRaise("ValueError")
    ELSE PyInt(SeqMax(np_sizes(t)))

MinNounPhrase_value_for_text(t) ==
    IF np_sizes(t) = <<>> THEN PyRaise("ValueError")
    ELSE PyInt(SeqMin(np_sizes(t)))

RECURSIVE GCD(_, _)
GCD(a, b) == IF b = 0 THEN a ELSE GCD(b, a % b)

\* num / den in lowest terms, den > 0
Fraction(num, den) ==
    LET g == GCD(IF num < 0 THEN -num ELSE num, den)
    IN  IF g = 0 THEN <<num, den>> ELSE <<num \div g, den \div g>>

\* The divisor of the sample standard deviation
BesselDivisor(n) == n - 1

\* The divisor np.std takes: len(xs) - ddof, ddof = 0
StdDivisor(n) == n

\* np.std(xs) = sqrt(mean(abs(xs - mean(xs)) ** 2)): nan for the empty list
\* (and whenever the divisor is not positive).
\* With n = len(xs) and s = sum(xs), xs[i] - mean(xs) is (n * xs[i] - s) / n:
\* the squares sum to sum((n * xs[i] - s) ** 2) / n ** 2.
NpStd(xs) ==
    IF xs = <<>> THEN PyNaN
    ELSE LET n  == Len(xs)
             s  == SeqSum(xs)
             sq == SeqSum([i \in 1..n |-> (n * xs[i] - s) * (n * xs[i] - s)])
             v  == Fraction(sq, n * n * StdDivisor(n))
         IN  IF StdDivisor(n) <= 0 THEN PyNaN ELSE PySqrt(v[1], v[2])

StdNounPhrase_value_for_text(t) == NpStd(np_sizes(t))

(***************************************************************************)
(* WordsBeforeMainVerb.value_for_text                                      *)
(***************************************************************************)
\* token[0][-2:]
LastTwo(word) ==
    IF Len(word) <= 2 THEN word ELSE SubSeq(word, Len(word) - 1, Len(word))

\* ('do', 'ar', 'er', 'ir')
NonFiniteEndings == {<<"d", "o">>, <<"a", "r">>, <<"e", "r">>, <<"i", "r">>}

\* [node['rel'] for node in tree.nodes.values()].index('ROOT'): the 0-based
\* index of the first ROOT node; -1 stands for the ValueError of index()
IndexOfRoot(nodes) ==
    LET roots == {i \in 1..Len(nodes) : nodes[i].rel = "ROOT"}
    IN  IF roots = {} THEN -1
        ELSE (CHOOSE i \in roots : \A j \in roots : i <= j) - 1

\* The root rule one further to the left
RootRuleTwoBack(i_root) == i_root - 2

\* The index the root rule gives: i_root - 1
RootRule(i_root) == i_root - 1

\* The first verb, whatever its ending
ScanAnyVerb(tagged_sent) ==
    LET verbs == {i \in 1..Len(tagged_sent) : is_verb(tagged_sent[i])}
    IN  IF verbs = {} THEN 0
        ELSE (CHOOSE i \in verbs : \A j \in verbs : i <= j) - 1

\* The first verb that is not in the gerund, in the participle, or in the
\* infinitive: its 0-based index, or the initial i_main_verb = 0
ScanRule(tagged_sent) ==
    LET finite == {i \in 1..Len(tagged_sent) :
                      /\ is_verb(tagged_sent[i])
                      /\ LastTwo(tagged_sent[i].word) \notin NonFiniteEndings}
    IN  IF finite = {} THEN 0
        ELSE (CHOOSE i \in finite : \A j \in finite : i <= j) - 1

\* i_main_verb of one sentence (the body of the loop), given that its tree
\* has a ROOT node
MainVerbIndex(sent) ==
    LET i_root == IndexOfRoot(sent.dep)
    IN  IF dep_is_verb(sent.dep[i_root + 1]) THEN RootRule(i_root)
        ELSE ScanRule(sent.tagged)

WordsBeforeMainVerb_value_for_text(t) ==
    IF \E i \in 1..Len(t) : IndexOfRoot(t[i].dep) < 0
        THEN PyRaise("ValueError")
    ELSE LET sent_scores == [i \in 1..Len(t) |-> MainVerbIndex(t[i])]
         IN  IF sent_scores = <<>> THEN PyInt(0)
             ELSE PyFloat(F64Div(F64FromInt(SeqSum(sent_scores)),
                                 F64FromInt(Len(sent_scores))))

(***************************************************************************)
(* The texts the metrics are evaluated on.                                 *)
(***************************************************************************)
\* Sentences per text
MaxSents == 2

\* Copies of one sentence in a text of identical sentences
MaxRepeat == 3

\* Leaves of one top-level noun phrase (and the noun phrases nested in it)
MaxNPSize == 3

\* Top-level noun phrases per text, in the texts of the noun phrase sizes
MaxNPs == 3

\* Words of the longest sentence, in the texts of the incidence
MaxWords == 7

\* Tokens per text, in the texts of the main verb
MaxTokens == 3

\* A token of the taggers: its word, its nlpnet tag, its universal tag
Token(word, tag, utag) == [word |-> word, tag |-> tag, utag |-> utag]

Noun == Token(<<"i", "t", "e", "n", "s">>, "N", "NOUN")

Period == Token(<<".">>, "PU", ".")

\* A finite verb of one letter, an infinitive, a participle, and a finite verb
\* that ends like an infinitive
FiniteVerb == Token(<<"e">>, "V", "VERB")

Infinitive == Token(<<"c", "o", "m", "e", "r">>, "V", "VERB")

Participle ==
    Token(<<"u", "t", "i", "l", "i", "z", "a", "d", "o">>, "PCP", "VERB")

TokenTypes == <<Noun, FiniteVerb, Infinitive, Participle>>

\* The sentence of these tokens, parsed as `tree`, the token at `rootAt` the
\* ROOT of its dependency graph (0: none, as for a sentence of no token)
Sentence(tree, tokens, rootAt) ==
    [tree   |-> tree,
     tagged |-> [i \in 1..Len(tokens) |->
                    [word |-> tokens[i].word, tag |-> tokens[i].tag]],
     dep    |-> <<[rel |-> "TOP", tag |-> "TOP"]>> \o
                [i \in 1..Len(tokens) |->
                    [rel |-> IF i = rootAt THEN "ROOT" ELSE "dep",
                     tag |-> tokens[i].utag]]]

\* A noun phrase of s leaves: a leaf, then the noun phrase of the other leaves
RECURSIVE NPOfSize(_)
NPOfSize(s) ==
    IF s = 1 THEN Node("NP", <<Leaf>>)
    ELSE Node("NP", <<Leaf, NPOfSize(s - 1)>>)

\* S -> NP ... NP VP, the noun phrases of these sizes
TreeOfSizes(sizes) ==
    Node("S", [i \in 1..Len(sizes) |-> NPOfSize(sizes[i])]
              \o <<Node("VP", <<Leaf>>)>>)

Repeat(x, n) == [i \in 1..n |-> x]

EmptySentence == Sentence(Node("S", <<>>), <<>>, 0)

\* The texts are drawn as shapes, a tuple of numbers per sentence, and
\* built from them.

\* k words and a full stop, parsed with a noun phrase of n leaves (n = 0: with
\* none); k = -1: the sentence of no token
IncidenceSentence(shape) ==
    LET n == shape[1]
        k == shape[2]
    IN  IF k < 0 THEN EmptySentence
        ELSE Sentence(TreeOfSizes(IF n = 0 THEN <<>> ELSE <<n>>),
                      Repeat(Noun, k) \o <<Period>>, 1)

IncidenceSentences == ((0..MaxNPSize) \X {0, 1, MaxWords}) \cup {<<0, -1>>}

\* The texts of at most MaxSents sentences, and those of at most MaxRepeat
\* copies of one sentence
IncidenceTexts ==
    UNION {[1..n -> IncidenceSentences] : n \in 0..MaxSents}
        \cup {Repeat(s, n) : s \in IncidenceSentences, n \in 0..MaxRepeat}

IncidenceText(shapes) ==
    [i \in 1..Len(shapes) |-> IncidenceSentence(shapes[i])]

\* The sentence of the docstrings, "Acessorio utilizado por adolescentes, o bone
\* e um dos itens que compoem a vestimenta idealizada pela proposta." (written
\* without its accents): 17 words and 2 punctuation marks
ExampleTokens ==
    <<
      Token(<<"A", "c", "e", "s", "s", "o", "r", "i", "o">>,
            "N", "NOUN"),
      Token(<<"u", "t", "i", "l", "i", "z", "a", "d", "o">>,
            "PCP", "VERB"),
      Token(<<"p", "o", "r">>,
            "PREP", "ADP"),
      Token(<<"a", "d", "o", "l", "e", "s", "c", "e", "n", "t", "e", "s">>,
            "N", "NOUN"),
      Token(<<",">>,
            "PU", "."),
      Token(<<"o">>,
            "ART", "DET"),
      Token(<<"b", "o", "n", "e">>,
            "N", "NOUN"),
      Token(<<"e">>,
            "V", "VERB"),
      Token(<<"u", "m">>,
            "ART", "DET"),
      Token(<<"d", "o", "s">>,
            "PREP+ART", "ADP"),
      Token(<<"i", "t", "e", "n", "s">>,
            "N", "NOUN"),
      Token(<<"q", "u", "e">>,
            "PRO-KS", "PRON"),
      Token(<<"c", "o", "m", "p", "o", "e", "m">>,
            "V", "VERB"),
      Token(<<"a">>,
            "ART", "DET"),
      Token(<<"v", "e", "s", "t", "i", "m", "e", "n", "t", "a">>,
            "N", "NOUN"),
      Token(<<"i", "d", "e", "a", "l", "i", "z", "a", "d", "a">>,
            "PCP", "VERB"),
      Token(<<"p", "e", "l", "a">>,
            "PREP+ART", "ADP"),
      Token(<<"p", "r", "o", "p", "o", "s", "t", "a">>,
            "N", "NOUN"),
      Token(<<".">>,
            "PU", ".")
    >>

\* A parse of it with the 5 noun phrases the docstring counts: adolescentes,
\* o bone, um dos itens ..., a vestimenta ..., proposta
ExampleTree ==
    Node("S", <<
        Node("AP", <<Leaf, Node("VP", <<Leaf,
            Node("PP", <<Leaf, Node("NP", <<Leaf>>)>>)>>)>>),
        Leaf,
        Node("NP", <<Leaf, Leaf>>),
        Node("VP", <<Leaf,
            Node("NP", <<Leaf, Leaf, Leaf,
                Node("CP", <<Leaf, Node("VP", <<Leaf,
                    Node("NP", <<Leaf, Leaf,
                        Node("AP", <<Leaf,
                            Node("PP", <<Leaf,
                                Node("NP", <<Leaf>>)>>)>>)>>)>>)>>)>>)>>),
        Leaf>>)

\* Its main verb, "utilizado", is the ROOT of the dependency graph
ExampleSentence == Sentence(ExampleTree, ExampleTokens, 2)


\* The sentence whose top-level noun phrases have these sizes: a word per
\* leaf and a full stop, the verb its ROOT
NounPhraseSentence(sizes) ==
    Sentence(TreeOfSizes(sizes),
             Repeat(Noun, SeqSum(sizes)) \o <<FiniteVerb, Period>>,
             SeqSum(sizes) + 1)

\* The texts of n sentences with at most `most` top-level noun phrases in all
RECURSIVE NounPhraseTextsOf(_, _)
NounPhraseTextsOf(n, most) ==
    IF n = 0 THEN {<<>>}
    ELSE UNION {LET rests == NounPhraseTextsOf(n - 1, most - j)
                IN  {<<sizes>> \o rest : sizes \in [1..j -> 1..MaxNPSize],
                                         rest \in rests} :
                j \in 0..most}

NounPhraseTexts == UNION {NounPhraseTextsOf(n, MaxNPs) : n \in 0..MaxSents}

NounPhraseText(shapes) ==
    [i \in 1..Len(shapes) |-> NounPhraseSentence(shapes[i])]

\* The sentences of j tokens, any of them the ROOT (j = 0: the sentence of no
\* token, whose dependency graph has no ROOT): the number of tokens, the
\* types of the tokens as the digits of a number, the place of the ROOT
MainVerbSentences(j) ==
    IF j = 0 THEN {<<0, 0, 0>>}
    ELSE {j} \X (0..(Len(TokenTypes)^j - 1)) \X (1..j)

\* The sentence of the tokens of these types, the token at rootAt its ROOT
MainVerbSentence(shape) ==
    LET j       == shape[1]
        type(i) == (shape[2] \div Len(TokenTypes)^(i - 1)) % Len(TokenTypes)
        rootAt  == shape[3]
    IN  IF j = 0 THEN EmptySentence
        ELSE Sentence(Node("S", Repeat(Leaf, j)),
                      [i \in 1..j |-> TokenTypes[type(i) + 1]], rootAt)

\* The texts of n sentences with at most `most` tokens in all
RECURSIVE MainVerbTextsOf(_, _)
MainVerbTextsOf(n, most) ==
    IF n = 0 THEN {<<>>}
    ELSE UNION {LET rests == MainVerbTextsOf(n - 1, most - j)
                IN  {<<shape>> \o rest : shape \in MainVerbSentences(j),
                                         rest \in rests} :
                j \in 0..most}

MainVerbTexts == UNION {MainVerbTextsOf(n, MaxTokens) : n \in 0..MaxSents}

MainVerbText(shapes) ==
    [i \in 1..Len(shapes) |-> MainVerbSentence(shapes[i])]

(***************************************************************************)
(* The Constituents category.  Metric names are held letter by letter, for *)
(* the order of Python strings to be computed: by code point, a proper     *)
(* prefix first.                                                           *)
(***************************************************************************)
\* The characters of the names, in code point order
CodePoints ==
    <<" ", "I", "M", "N", "P", "S", "V", "W", "a", "b", "c", "d", "e", "f",
      "h", "i", "m", "n", "o", "r", "s", "t", "u", "x">>

ord(c) == CHOOSE i \in 1..Len(CodePoints) : CodePoints[i] = c

\* a < b for str
RECURSIVE str_lt(_, _)
str_lt(a, b) ==
    IF b = <<>> THEN FALSE
    ELSE IF a = <<>> THEN TRUE
    ELSE IF Head(a) # Head(b) THEN ord(Head(a)) < ord(Head(b))
    ELSE str_lt(Tail(a), Tail(b))

\* The name and column_name of a metric class
MetricClass(name, column_name) == [name |-> name, column_name |-> column_name]

NounPhraseIncidenceClass ==
    MetricClass(<<"N", "o", "u", "n", " ", "P", "h", "r", "a", "s", "e", " ",
                  "I", "n", "c", "i", "d", "e", "n", "c", "e">>,
                "np_incidence")

MeanNounPhraseClass ==
    MetricClass(<<"M", "e", "a", "n", " ", "N", "o", "u", "n", " ",
                  "P", "h", "r", "a", "s", "e">>,
                "mean_noun_phrase")

MaxNounPhraseClass ==
    MetricClass(<<"M", "a", "x", "i", "m", "u", "m", " ", "N", "o", "u", "n",
                  " ", "P", "h", "r", "a", "s", "e">>,
                "max_noun_phrase")

MinNounPhraseClass ==
    MetricClass(<<"M", "i", "n", "i", "m", "u", "m", " ", "N", "o", "u", "n",
                  " ", "P", "h", "r", "a", "s", "e">>,
                "min_noun_phrase")

StdNounPhraseClass ==
    MetricClass(<<"S", "t", "d", " ", "N", "o", "u", "n", " ",
                  "P", "h", "r", "a", "s", "e">>,
                "std_noun_phrase")

WordsBeforeMainVerbClass ==
    MetricClass(<<"W", "o", "r", "d", "s", " ", "b", "e", "f", "o", "r", "e",
                  " ", "M", "a", "i", "n", " ", "V", "e", "r", "b">>,
                "words_before_main_verb")

\* The Metric subclasses the module defines
MetricClasses ==
    {NounPhraseIncidenceClass, MeanNounPhraseClass, MaxNounPhraseClass,
     MinNounPhraseClass, StdNounPhraseClass, WordsBeforeMainVerbClass}

\* The orders in which _set_metrics_from_module can deliver them
DiscoveryOrders ==
    {order \in [1..Cardinality(MetricClasses) -> MetricClasses] :
        \A i, j \in DOMAIN order : i # j => order[i] # order[j]}

\* The list left as it was discovered
unsorted(ms) == ms

\* ms.sort(key=lambda m: m.name): stable, each element placed after the
\* elements whose name is not greater
RECURSIVE sort_by_name(_)
sort_by_name(ms) ==
    IF ms = <<>> THEN <<>>
    ELSE LET m      == ms[Len(ms)]
             before == sort_by_name(SubSeq(ms, 1, Len(ms) - 1))
             k      == Cardinality({i \in 1..Len(before) :
                                        ~str_lt(m.name, before[i].name)})
         IN  SubSeq(before, 1, k) \o <<m>> \o SubSeq(before, k + 1, Len(before))

(***************************************************************************)
(* The resource pool.  A resource is known by the number of the tool       *)
(* invocation, for its text and kind, that made it: two requests return    *)
(* the identical object when they return the same number.                  *)
(***************************************************************************)
\* Tool invocations that fail
MaxFailures == 1

PoolTexts == {"t1", "t2"}

\* The resources each value_for_text requests of rp, in the order it does
Requests(column_name) ==
    CASE column_name = "np_incidence" -> <<"parse_trees", "tagged_sentences">>
      [] column_name = "mean_noun_phrase" -> <<"leaves_in_toplevel_nps">>
      [] column_name = "max_noun_phrase" -> <<"leaves_in_toplevel_nps">>
      [] column_name = "min_noun_phrase" -> <<"leaves_in_toplevel_nps">>
      [] column_name = "std_noun_phrase" -> <<"leaves_in_toplevel_nps">>
      [] column_name = "words_before_main_verb"
            -> <<"dep_trees", "tagged_words_in_sents">>

ColumnNames == {m.column_name : m \in MetricClasses}

ResourceKinds ==
    UNION {{Requests(c)[k] : k \in 1..Len(Requests(c))} : c \in ColumnNames}

Pairs == PoolTexts \X ResourceKinds

\* The pool before any request: nothing cached, no tool invoked
EmptyPool ==
    [cache    |-> [p \in Pairs |-> 0],
     calls    |-> [p \in Pairs |-> 0],
     made     |-> [p \in Pairs |-> 0],
     first    |-> [p \in Pairs |-> 0],
     failures |-> 0]

\* The tool invoked for the pair: it makes the resource, which is stored, or
\* it fails, and nothing is stored.  `value` 0 is the failure.
invoke_tool(pool, p, works) ==
    LET n == pool.calls[p] + 1
    IN  IF works
        THEN [pool  |-> [pool EXCEPT !.calls[p] = n, !.cache[p] = n,
                                     !.made[p] = @ + 1,
                                     !.first[p] = IF @ = 0 THEN n ELSE @],
              value |-> n, hit |-> FALSE]
        ELSE [pool  |-> [pool EXCEPT !.calls[p] = n, !.failures = @ + 1],
              value |-> 0, hit |-> FALSE]

\* A pool that asks the tool at every request
compute_always(pool, t, kind, works) == invoke_tool(pool, <<t, kind>>, works)

\* get_or_compute(text, resource_kind): the cached value when there is one,
\* else the tool's
get_or_compute(pool, t, kind, works) ==
    IF pool.cache[<<t, kind>>] # 0
    THEN [pool |-> pool, value |-> pool.cache[<<t, kind>>], hit |-> TRUE]
    ELSE invoke_tool(pool, <<t, kind>>, works)

\* The requests of one value_for_text, in order, up to the first that fails:
\* the pool they leave, the values they returned, which of them the cache
\* answered
RECURSIVE serve(_, _, _, _)
serve(pool, t, kinds, works) ==
    IF kinds = <<>> THEN [pool |-> pool, got |-> <<>>, hits |-> <<>>]
    ELSE LET r == get_or_compute(pool, t, Head(kinds), Head(works))
         IN  IF r.value = 0
             THEN [pool |-> r.pool, got |-> <<0>>, hits |-> <<FALSE>>]
             ELSE LET rest == serve(r.pool, t, Tail(kinds), Tail(works))
                  IN  [pool |-> rest.pool,
                       got  |-> <<r.value>> \o rest.got,
                       hits |-> <<r.hit>> \o rest.hits]

VARIABLES text, metric, value, discovered, metrics, rp, served

metricVars == <<text, metric, value>>

categoryVars == <<discovered, metrics>>

poolVars == <<rp, served>>

vars == <<text, metric, value, discovered, metrics, rp, served>>

\* No request served
NoRequest == [text |-> "none", metric |-> "none", got |-> <<>>, hits |-> <<>>]

NoPool == rp = EmptyPool /\ served = NoRequest

\* No metric evaluated, no category constructed
NoEvaluation == text = <<>> /\ metric = "none" /\ value = NoValue

NoCategory == discovered = <<>> /\ metrics = <<>>

\* One evaluation of a metric on the text: self.value_for_text(t)
Evaluate(column_name, result) ==
    /\ metric = "none"
    /\ metric' = column_name
    /\ value' = result
    /\ UNCHANGED <<text, categoryVars, poolVars>>

NounPhraseIncidence ==
    Evaluate("np_incidence", NounPhraseIncidence_value_for_text(text))

MeanNounPhrase ==
    Evaluate("mean_noun_phrase", MeanNounPhrase_value_for_text(text))

MaxNounPhrase ==
    Evaluate("max_noun_phrase", MaxNounPhrase_value_for_text(text))

MinNounPhrase ==
    Evaluate("min_noun_phrase", MinNounPhrase_value_for_text(text))

StdNounPhrase ==
    Evaluate("std_noun_phrase", StdNounPhrase_value_for_text(text))

WordsBeforeMainVerb ==
    Evaluate("words_before_main_verb", WordsBeforeMainVerb_value_for_text(text))

Init ==
    /\ \/ \E shapes \in IncidenceTexts : text = IncidenceText(shapes)
       \/ text = <<ExampleSentence>>
    /\ metric = "none" /\ value = NoValue
    /\ NoCategory /\ NoPool

Next ==
    \/ NounPhraseIncidence
    \/ MeanNounPhrase
    \/ MaxNounPhrase
    \/ MinNounPhrase
    \/ StdNounPhrase
    \/ WordsBeforeMainVerb

Spec == Init /\ [][Next]_vars

\* The metrics of the sizes of the noun phrases, on the texts made for them
InitNounPhrase ==
    /\ \E shapes \in NounPhraseTexts : text = NounPhraseText(shapes)
    /\ metric = "none" /\ value = NoValue
    /\ NoCategory /\ NoPool

NextNounPhrase ==
    \/ MeanNounPhrase
    \/ MaxNounPhrase
    \/ MinNounPhrase
    \/ StdNounPhrase

SpecNounPhrase == InitNounPhrase /\ [][NextNounPhrase]_vars

\* Words before Main Verb, on the texts made for it
InitMainVerb ==
    /\ \/ \E shapes \in MainVerbTexts : text = MainVerbText(shapes)
       \/ text = <<ExampleSentence>>
    /\ metric = "none" /\ value = NoValue
    /\ NoCategory /\ NoPool

NextMainVerb == WordsBeforeMainVerb

SpecMainVerb == InitMainVerb /\ [][NextMainVerb]_vars

\* Constituents.__init__: the metric classes of the module are discovered in
\* some order, then sorted by name
Constituents_init ==
    /\ discovered = <<>>
    /\ \E order \in DiscoveryOrders :
            /\ discovered' = order
            /\ metrics' = sort_by_name(order)
    /\ UNCHANGED <<metricVars, poolVars>>

InitCategory == NoEvaluation /\ NoCategory /\ NoPool

NextCategory == Constituents_init

SpecCategory == InitCategory /\ [][NextCategory]_vars

\* A metric evaluated on a text through the pool: its requests are served in
\* order, each tool invocation working or failing
ServeMetric ==
    \E t \in PoolTexts, c \in ColumnNames :
        \E works \in [1..Len(Requests(c)) -> BOOLEAN] :
            LET r == serve(rp, t, Requests(c), works)
            IN  /\ r.pool.failures <= MaxFailures
                /\ rp' = r.pool
                /\ served' = [text |-> t, metric |-> c,
                              got |-> r.got, hits |-> r.hits]
                /\ UNCHANGED <<metricVars, categoryVars>>

InitPool == NoEvaluation /\ NoCategory /\ NoPool

NextPool == ServeMetric

SpecPool == InitPool /\ [][NextPool]_vars

(***************************************************************************)
(* What the properties speak of, counted from the resources themselves.    *)
(***************************************************************************)
\* The nodes of the tree labelled NP, nested ones included
RECURSIVE NPNodes(_)
NPNodes(tree) ==
    LET RECURSIVE inKids(_)
        inKids(i) == IF i = 0 THEN 0 ELSE NPNodes(tree.kids[i]) + inKids(i - 1)
    IN  (IF tree.label = "NP" THEN 1 ELSE 0) + inKids(Len(tree.kids))

\* The tokens of the sentence that are not punctuation marks
RECURSIVE WordTokens(_)
WordTokens(tagged) ==
    IF tagged = <<>> THEN 0
    ELSE (IF Head(tagged).tag = "PU" THEN 0 ELSE 1) + WordTokens(Tail(tagged))

\* Fractions <<p, q>>, q > 0, in lowest terms
RatAdd(a, b) == Fraction(a[1] * b[2] + b[1] * a[2], a[2] * b[2])

RECURSIVE RatSum(_)
RatSum(rs) == IF rs = <<>> THEN <<0, 1>> ELSE RatAdd(Head(rs), RatSum(Tail(rs)))

RatMean(rs) == LET s == RatSum(rs) IN Fraction(s[1], s[2] * Len(rs))

\* The float nearest to the fraction
Nearest(r) == F64Div(F64FromInt(r[1]), F64FromInt(r[2]))

\* Equal up to the rounding of a few float operations: at most 2 units in
\* the last place apart
Close(x, y) == F64UlpsApart(x, y) <= 2

HasWords(t) == \A i \in 1..Len(t) : WordTokens(t[i].tagged) > 0

\* The exact ratio of a sentence, noun phrases per thousand words
ExactIncidence(sent) ==
    Fraction(PerThousand * NPNodes(sent.tree), WordTokens(sent.tagged))

ExactIncidences(t) == [i \in 1..Len(t) |-> ExactIncidence(t[i])]

\* The ratio of a sentence as the floats give it
FloatIncidence(sent) ==
    F64Div(F64FromInt(NPNodes(sent.tree)),
           F64Div(F64FromInt(WordTokens(sent.tagged)), F64FromInt(PerThousand)))

\* Every sentence has the NP count and the word count of the first
SameCounts(t) ==
    \A i \in 1..Len(t) : /\ NPNodes(t[i].tree) = NPNodes(t[1].tree)
                         /\ WordTokens(t[i].tagged) = WordTokens(t[1].tagged)

(***************************************************************************)
(* Properties                                                              *)
(***************************************************************************)
\* C1: on a text of no sentence, Noun Phrase Incidence and Words before Main
\* Verb return 0 and raise nothing.
C1_ZeroOnNoSentence ==
    (text = <<>> /\ metric \in {"np_incidence", "words_before_main_verb"})
        => value = PyInt(0)

C1_Witness == text = <<>> /\ metric = "np_incidence" /\ value = PyInt(0)

\* C2 as the specification words it: the incidence of N sentences of identical
\* counts is exactly the ratio of one of them.
C2_ExactOnIdenticalCounts ==
    (metric = "np_incidence" /\ text # <<>> /\ HasWords(text)
                             /\ SameCounts(text))
        => value = PyFloat(FloatIncidence(text[1]))

\* C2: Noun Phrase Incidence is the mean over the sentences of
\* NP count / (word count / 1000), nested NPs counted, up to the rounding of
\* the float operations: within 2 units in the last place of the
\* float nearest to the exact mean, and for N sentences of identical counts
\* within as many of the ratio of one sentence.  For a single sentence it is
\* the float ratio itself, and for the documented sentence (5 NPs, 17 words)
\* it is the float nearest to 5000/17 = 294.11...
C2_MeanOfRatiosUpToRounding ==
    (metric = "np_incidence" /\ text # <<>> /\ HasWords(text))
        => /\ value.kind = "float"
           /\ Close(value.val, Nearest(RatMean(ExactIncidences(text))))
           /\ SameCounts(text) => Close(value.val, FloatIncidence(text[1]))
           /\ Len(text) = 1 => value.val = FloatIncidence(text[1])
           /\ text = <<ExampleSentence>>
                => /\ NPNodes(text[1].tree) = 5
                   /\ WordTokens(text[1].tagged) = 17
                   /\ value.val = Nearest(<<5000, 17>>)

\* Three sentences of identical counts whose incidence is not the ratio of one
C2_Witness ==
    /\ metric = "np_incidence"
    /\ Len(text) = 3
    /\ HasWords(text)
    /\ SameCounts(text)
    /\ value.kind = "float"
    /\ value.val # FloatIncidence(text[1])
    /\ Close(value.val, FloatIncidence(text[1]))

\* C9: Noun Phrase Incidence raises ZeroDivisionError exactly when some
\* sentence has no token that is not punctuation, and raises nothing else.
C9_ZeroDivisionIffNoWords ==
    metric = "np_incidence"
        => /\ value = PyRaise("ZeroDivisionError") <=> ~HasWords(text)
           /\ value.kind = "raise" => value.val = "ZeroDivisionError"

C9_Witness ==
    /\ metric = "np_incidence"
    /\ Len(text) = 2
    /\ WordTokens(text[1].tagged) > 0
    /\ text[2].tagged # <<>>
    /\ WordTokens(text[2].tagged) = 0
    /\ value = PyRaise("ZeroDivisionError")

\* The leaves of the tree
RECURSIVE LeafCount(_)
LeafCount(tree) ==
    LET RECURSIVE inKids(_)
        inKids(i) == IF i = 0 THEN 0 ELSE LeafCount(tree.kids[i]) + inKids(i - 1)
    IN  IF tree.label = "LEAF" THEN 1 ELSE inKids(Len(tree.kids))

\* The leaf counts of the outermost NP nodes of the tree, left to right
RECURSIVE OutermostNPSizes(_)
OutermostNPSizes(tree) ==
    LET RECURSIVE inKids(_)
        inKids(i) == IF i = 0 THEN <<>>
                     ELSE inKids(i - 1) \o OutermostNPSizes(tree.kids[i])
    IN  IF tree.label = "NP" THEN <<LeafCount(tree)>>
        ELSE inKids(Len(tree.kids))

\* The sizes of all the top-level noun phrases of the text, in one list
RECURSIVE AllSizes(_)
AllSizes(t) ==
    IF t = <<>> THEN <<>>
    ELSE AllSizes(SubSeq(t, 1, Len(t) - 1)) \o OutermostNPSizes(t[Len(t)].tree)

RECURSIVE Total(_)
Total(xs) == IF xs = <<>> THEN 0 ELSE Head(xs) + Total(Tail(xs))

Squares(xs) == [i \in 1..Len(xs) |-> xs[i] * xs[i]]

Elements(xs) == {xs[i] : i \in 1..Len(xs)}

\* C4: Maximum, Minimum and Std Noun Phrase are the greatest element, the
\* least element and the population standard deviation (divisor N) of the one
\* list of all top-level NP sizes of the text, however the sizes are spread
\* over the sentences; the sizes 1, 3, 2 give 3, 1 and the variance 2/3.
C4_MaxMinStdOverAllSizes ==
    LET L == AllSizes(text)
        N == Len(L)
    IN  (metric \in {"max_noun_phrase", "min_noun_phrase", "std_noun_phrase"}
            /\ L # <<>>)
        => /\ metric = "max_noun_phrase"
                => /\ value.kind = "int"
                   /\ value.val \in Elements(L)
                   /\ \A x \in Elements(L) : x <= value.val
           /\ metric = "min_noun_phrase"
                => /\ value.kind = "int"
                   /\ value.val \in Elements(L)
                   /\ \A x \in Elements(L) : x >= value.val
           /\ metric = "std_noun_phrase"
                => /\ value.kind = "sqrt"
                   /\ value.val[2] > 0
                   /\ value.val[1] * N * N
                        = value.val[2] * (N * Total(Squares(L))
                                            - Total(L) * Total(L))
           /\ L = <<1, 3, 2>>
                => value = CASE metric = "max_noun_phrase" -> PyInt(3)
                             [] metric = "min_noun_phrase" -> PyInt(1)
                             [] metric = "std_noun_phrase" -> PySqrt(2, 3)

\* The sizes 1, 3 of one sentence and 2 of the next
C4_Witness ==
    /\ metric = "std_noun_phrase"
    /\ Len(text) = 2
    /\ OutermostNPSizes(text[1].tree) = <<1, 3>>
    /\ OutermostNPSizes(text[2].tree) = <<2>>
    /\ value = PySqrt(2, 3)

\* C5: on a text with no top-level noun phrase, Maximum and Minimum Noun
\* Phrase raise ValueError; they never return a default such as 0.
C5_MaxMinRaiseOnNoNP ==
    (metric \in {"max_noun_phrase", "min_noun_phrase"} /\ AllSizes(text) = <<>>)
        => value = PyRaise("ValueError")

C5_Witness ==
    /\ metric = "max_noun_phrase"
    /\ Len(text) = 2
    /\ AllSizes(text) = <<>>
    /\ value = PyRaise("ValueError")

\* Every sentence of the text, and there is one, has a top-level noun phrase
MeanDefined(t) ==
    t # <<>> /\ \A i \in 1..Len(t) : OutermostNPSizes(t[i].tree) # <<>>

\* The exact mean of the top-level NP sizes of each sentence
SentenceMeans(t) ==
    [i \in 1..Len(t) |->
        LET sizes == OutermostNPSizes(t[i].tree)
        IN  Fraction(Total(sizes), Len(sizes))]

\* C8: Mean Noun Phrase is the mean over the sentences of the mean top-level
\* NP size of each sentence (a float, up to rounding), defined exactly when
\* the text has a sentence and every sentence has a top-level NP; otherwise
\* it is NaN, neither an error nor 0.
C8_MeanOfSentenceMeans ==
    metric = "mean_noun_phrase"
        => /\ MeanDefined(text)
                => /\ value.kind = "float"
                   /\ Close(value.val, Nearest(RatMean(SentenceMeans(text))))
           /\ ~MeanDefined(text) => value = PyNaN

\* Sentences of sizes 1, 1 and of size 3: the mean of the means is 2, the
\* mean of all the sizes 5/3
C8_Witness ==
    /\ metric = "mean_noun_phrase"
    /\ Len(text) = 2
    /\ OutermostNPSizes(text[1].tree) = <<1, 1>>
    /\ OutermostNPSizes(text[2].tree) = <<3>>
    /\ value = PyFloat(F64FromInt(2))

\* The nodes of the dependency graph with relation ROOT, by position (the
\* first node, TOP, at position 0)
RootPositions(dep) == {k \in 0..(Len(dep) - 1) : dep[k + 1].rel = "ROOT"}

HasRoot(t) == \A i \in 1..Len(t) : RootPositions(t[i].dep) # {}

\* The word ends in the two letters of the suffix
EndsIn(word, suffix) ==
    /\ Len(word) >= 2
    /\ word[Len(word) - 1] = suffix[1]
    /\ word[Len(word)] = suffix[2]

\* The token is a verb and ends in none of "do", "ar", "er", "ir"
FiniteVerbAt(tagged, k) ==
    /\ is_verb(tagged[k + 1])
    /\ \A suffix \in {<<"d", "o">>, <<"a", "r">>, <<"e", "r">>, <<"i", "r">>} :
            ~EndsIn(tagged[k + 1].word, suffix)

\* The main-verb index of a sentence as the rule states it
RuleIndex(sent) ==
    LET root == CHOOSE k \in RootPositions(sent.dep) : TRUE
        n    == Len(sent.tagged)
    IN  IF sent.dep[root + 1].tag = "VERB" THEN root - 1
        ELSE IF \E k \in 0..(n - 1) : FiniteVerbAt(sent.tagged, k)
            THEN CHOOSE k \in 0..(n - 1) :
                    /\ FiniteVerbAt(sent.tagged, k)
                    /\ \A j \in 0..(k - 1) : ~FiniteVerbAt(sent.tagged, j)
        ELSE 0

\* C3: Words before Main Verb is the mean over the sentences of the
\* main-verb index: the ROOT node's position - 1 when the ROOT node's tag is
\* a verb tag, else the index of the first tagged word that is a verb and
\* does not end in "do", "ar", "er" or "ir", else 0 (0 for no sentence); for
\* the documented sentence it is 1.  Stated for texts whose dependency graphs
\* each have their ROOT node.
C3_MeanOfMainVerbIndices ==
    (metric = "words_before_main_verb" /\ HasRoot(text))
        => /\ value = IF text = <<>> THEN PyInt(0)
                      ELSE PyFloat(Nearest(
                            <<Total([i \in 1..Len(text) |-> RuleIndex(text[i])]),
                              Len(text)>>))
           /\ text = <<ExampleSentence>> => value = PyFloat(F64FromInt(1))

\* A sentence whose ROOT is no verb and whose first verb is a participle: the
\* index is that of the finite verb after it
C3_Witness ==
    /\ metric = "words_before_main_verb"
    /\ Len(text) = 1
    /\ Len(text[1].tagged) = 3
    /\ RootPositions(text[1].dep) = {2}
    /\ text[1].dep[3].tag = "NOUN"
    /\ text[1].tagged[1].tag = "PCP"
    /\ FiniteVerbAt(text[1].tagged, 2)
    /\ value = PyFloat(F64FromInt(2))

Occurrences(m, ms) == Cardinality({i \in 1..Len(ms) : ms[i] = m})

\* C6: once the Constituents category is constructed, its metrics are in
\* non-decreasing order of display name (the order of strings), whatever the
\* order of discovery, and they are the discovered metrics: none added,
\* dropped or duplicated.
C6_SortedByNameAndPermuted ==
    discovered # <<>>
        => /\ \A i, j \in 1..Len(metrics) :
                i < j => ~str_lt(metrics[j].name, metrics[i].name)
           /\ Len(metrics) = Len(discovered)
           /\ \A m \in MetricClasses :
                Occurrences(m, metrics) = Occurrences(m, discovered)
           /\ [i \in 1..Len(metrics) |-> metrics[i].column_name]
                = <<"max_noun_phrase", "mean_noun_phrase", "min_noun_phrase",
                    "np_incidence", "std_noun_phrase", "words_before_main_verb">>

\* Discovered last name first
C6_Witness ==
    /\ Len(discovered) = 6
    /\ \A i, j \in 1..Len(discovered) :
            i < j => str_lt(discovered[j].name, discovered[i].name)
    /\ metrics[1] = MaxNounPhraseClass
    /\ metrics[6] = WordsBeforeMainVerbClass

\* The pair of the k-th request of the evaluation served last
ServedPair(k) == <<served.text, Requests(served.metric)[k]>>

\* The evaluation served last got every resource it asked for
ServedAll ==
    /\ served.metric # "none"
    /\ Len(served.got) = Len(Requests(served.metric))
    /\ \A k \in 1..Len(served.got) : served.got[k] # 0

\* C7 as the specification words it: for each text and resource kind the
\* tool is invoked exactly once, on the first request.
C7_ToolInvokedExactlyOnce == \A p \in Pairs : rp.calls[p] <= 1

\* C7: for each text and resource kind the tool makes the resource at most
\* once: every invocation but the one that made it failed, and a failed
\* invocation leaves nothing cached, so that the next request invokes the
\* tool again.  Once the resource is made, every request returns that
\* identical resource from the cache.
C7_ResourceMadeAtMostOnce ==
    /\ \A p \in Pairs :
        /\ rp.made[p] <= 1
        /\ rp.made[p] = 1 <=> rp.cache[p] # 0
        /\ rp.cache[p] # 0 => rp.cache[p] = rp.first[p] /\ rp.calls[p] = rp.first[p]
        /\ rp.calls[p] <= rp.made[p] + rp.failures
    /\ \A k \in 1..Len(served.got) :
        /\ served.got[k] # 0 => served.got[k] = rp.first[ServedPair(k)]
        /\ served.hits[k] => served.got[k] = rp.cache[ServedPair(k)]

\* A resource made at the second invocation, the first having failed, and
\* then returned from the cache
C7_Witness ==
    /\ ServedAll
    /\ served.hits[1]
    /\ rp.calls[ServedPair(1)] = 2
    /\ served.got[1] = 2
=============================================================================
